---- MODULE Spec2Model ----
(***************************************************************************)
(* Model of the CSV-to-MySQL pipeline of the HealthCare project:           *)
(*   src/src/db_connection.py  (connection, scoped cursor, insert_data)    *)
(*   src/src/data_pipeline.py  (create tables, load functions, setup)      *)
(* The program is single-threaded.  One run of setup_database is modelled  *)
(* as a sequence of steps; every scoped cursor acquisition is cut in three *)
(* steps (enter, body, exit) so that the states inside a scope are states  *)
(* of the model.  The MySQL server, the driver and the CSV files on disk   *)
(* are the environment: their outcomes are chosen nondeterministically.    *)
(***************************************************************************)
EXTENDS Integers, Sequences, FiniteSets, TLC

VARIABLES
    pc,          \* position inside setup_database
    ent,         \* index (1..3) of the table / entity being created or loaded
    csv,         \* outcome of load_csv_data in the current load function
    df,          \* rows of the DataFrame of the current load function
    idx,         \* index of the row of df the loop is at
    count,       \* local variable count of the current load function
    counts,      \* value returned by each load function to setup_database
    createRes,   \* value returned by the last create_*_table call (dropped by the caller)
    propagated,  \* exception that left setup_database ("none" if none)
    summary,     \* TRUE once the pipeline summary has been printed
    sc,          \* position inside the current get_db_cursor scope
    db,          \* local variable db of get_db_cursor
    cursor,      \* local variable cursor of get_db_cursor
    pending,     \* rows written in the open transaction, not yet committed
    bodyExc,     \* what the body of the current scope raised
    exc,         \* exception leaving the current scope / current call
    events,      \* calls made on the connection and cursor in the current scope
    lastConn,    \* outcome of the most recent get_db_connection call
    openConns,   \* number of connections to the server that are open
    tables,      \* names of the tables that exist in the database
    store,       \* rows stored (committed) in each table
    testRet,     \* outcome of the most recent test_connection call
    createLog,   \* history: tables whose create step was attempted, in order
    attempts,    \* history: tables of the insert_data calls of this run, repeats collapsed
    tried,       \* history: insert_data calls made by the current load
    failed,      \* history: insert_data calls of the current load that raised
    before,      \* history: number of rows of the table when the load began
    connFailed,  \* history, kept until the loads begin: a create step of this
                 \* run could not connect
    file,        \* what is at the path of the CSV file of the current load
    fault,       \* history: the driver or the body failed in the current scope
                 \* for a reason other than the server rejecting the statement
    initial,     \* history: number of hospital rows stored before the run
    srcRow,      \* a source row handed to the hospital row transformer
    rec          \* outcome of the hospital row transformer on srcRow

vars == <<pc, ent, csv, df, idx, count, counts, createRes, propagated,
          summary, sc, db, cursor, pending, bodyExc, exc, events, lastConn,
          openConns, tables, store, testRet, createLog, attempts, tried,
          failed, before, connFailed, file, fault, initial, srcRow, rec>>

\* Left alone by every step of a run: the stock of the database before the
\* run and the variables of the row transformer on its own.
constVars == <<initial, srcRow, rec>>

pipeVars == <<pc, ent, csv, df, idx, count, counts, createRes,
              propagated, summary, createLog, attempts, tried, failed, before,
              connFailed, file>>

scopeVars == <<sc, db, cursor, pending, bodyExc, exc, events, lastConn,
               openConns, fault>>

(***************************************************************************)
(* Bounds of the model.                                                    *)
(***************************************************************************)
MaxRows == 2      \* rows of a CSV file

(***************************************************************************)
(* Values.  NaN is what pandas puts in an empty CSV cell; NULL is the SQL  *)
(* null the driver sends for it.                                           *)
(***************************************************************************)
NaN == "NaN"
NULL == "NULL"

\* The three tables, in the order setup_database handles them.
TableNames == <<"hospitals", "doctors", "emergency_services">>

RECURSIVE CountOf(_, _)
CountOf(s, e) ==
    IF s = <<>> THEN 0
    ELSE (IF Head(s) = e THEN 1 ELSE 0) + CountOf(Tail(s), e)

\* s with e added, unless e is already its last element.
AppendNew(s, e) == IF s # <<>> /\ s[Len(s)] = e THEN s ELSE Append(s, e)

\* pandas Series.get(key, default)
row_get(row, key, default) ==
    IF key \in DOMAIN row THEN row[key] ELSE default

(***************************************************************************)
(* Row Transformer: the dictionaries built inside the three load loops.    *)
(***************************************************************************)
\* data_pipeline.py 211-217
hospital_record(row) ==
    [hospital_name |-> row_get(row, "Hospital Name", row_get(row, "hospital_name", "")),
     state         |-> row_get(row, "State", row_get(row, "state", "")),
     hospital_type |-> row_get(row, "Hospital Type", row_get(row, "hospital_type", "")),
     beds          |-> row_get(row, "Number of Beds", row_get(row, "beds", 0)),
     trauma_center |-> row_get(row, "Trauma Center", row_get(row, "trauma_center", "No"))]

\* doctor_record with a hospital_id, that of the first hospital.
doctor_record_with_hospital_id(row) ==
    [doctor_name      |-> row_get(row, "Doctor Name", ""),
     specialty        |-> row_get(row, "Specialty", ""),
     phone            |-> row_get(row, "Phone", ""),
     email            |-> row_get(row, "Email", ""),
     experience_years |-> row_get(row, "Experience Years", 0),
     hospital_id      |-> 1]

\* data_pipeline.py 246-252
doctor_record(row) ==
    [doctor_name      |-> row_get(row, "Doctor Name", ""),
     specialty        |-> row_get(row, "Specialty", ""),
     phone            |-> row_get(row, "Phone", ""),
     email            |-> row_get(row, "Email", ""),
     experience_years |-> row_get(row, "Experience Years", 0)]

\* data_pipeline.py 281-287
emergency_record(row) ==
    [hospital_name  |-> row_get(row, "Hospital Name", ""),
     state          |-> row_get(row, "State", ""),
     emergency_type |-> row_get(row, "Emergency Type", ""),
     phone_number   |-> row_get(row, "Phone Number", ""),
     address        |-> row_get(row, "Address", "")]

\* The dictionary the load loop of entity e builds for a row.
row_to_record(e, row) ==
    IF e = 1 THEN hospital_record(row)
    ELSE IF e = 2 THEN doctor_record(row)
    ELSE emergency_record(row)

(***************************************************************************)
(* The CSV files the environment can put on disk.  A data row is written   *)
(* under one of three headers: the human-readable column names, the        *)
(* snake_case column names, or a header with none of the known columns.    *)
(***************************************************************************)
PrimaryColumn ==
    <<[hospital_name |-> "Hospital Name", state |-> "State",
       hospital_type |-> "Hospital Type", beds |-> "Number of Beds",
       trauma_center |-> "Trauma Center"],
      [doctor_name |-> "Doctor Name", specialty |-> "Specialty",
       phone |-> "Phone", email |-> "Email",
       experience_years |-> "Experience Years"],
      [hospital_name |-> "Hospital Name", state |-> "State",
       emergency_type |-> "Emergency Type", phone_number |-> "Phone Number",
       address |-> "Address"]>>

DefaultValue ==
    <<[hospital_name |-> "", state |-> "", hospital_type |-> "", beds |-> 0,
       trauma_center |-> "No"],
      [doctor_name |-> "", specialty |-> "", phone |-> "", email |-> "",
       experience_years |-> 0],
      [hospital_name |-> "", state |-> "", emergency_type |-> "",
       phone_number |-> "", address |-> ""]>>

Styles == {"primary", "snake", "none"}

\* The cells of one data row, by target field.
CellValues(e) ==
    IF e = 1 THEN
        {[hospital_name |-> n, state |-> s, hospital_type |-> "Acute Care",
          beds |-> 200, trauma_center |-> "Yes"] :
            <<n, s>> \in {<<"Mercy General", "CA">>, <<"St Luke", "CA">>,
                           <<"Mercy General", NaN>>}}
    ELSE IF e = 2 THEN
        {[doctor_name |-> n, specialty |-> "Cardiology", phone |-> "555-0100",
          email |-> "rao@example.org", experience_years |-> 5] :
            n \in {"Dr Rao", NaN}}
    ELSE
        {[hospital_name |-> "Mercy General", state |-> "CA",
          emergency_type |-> "Trauma", phone_number |-> "555-0199",
          address |-> "1 Main St"]}

\* The row pandas yields for the cells v of entity e under a header style.
MakeRow(e, style, v) ==
    IF style = "snake" THEN v
    ELSE IF style = "primary" THEN
        [c \in {PrimaryColumn[e][f] : f \in DOMAIN v} |->
            v[CHOOSE f \in DOMAIN v : PrimaryColumn[e][f] = c]]
    ELSE [c \in {"id"} |-> 1]

\* The DataFrames read_csv can return for entity e (zero rows: header only).
DataFrames(e) ==
    UNION {{[i \in 1..k |-> MakeRow(e, st, vs[i])] : vs \in [1..k -> CellValues(e)]} :
            k \in 0..MaxRows, st \in Styles}

\* data_pipeline.py 81-90: the outcomes of load_csv_data ("ok": it returned).
CsvOutcomes == {"ok", "FileNotFoundError", "EmptyDataError"}

\* data_pipeline.py 81-84: what can be at the path handed to load_csv_data:
\* no file, a file of zero bytes, a file with a header line (and rows or not).
FileKinds == {"missing", "zero_bytes", "csv"}

(***************************************************************************)
(* The database server: constraints of the three CREATE TABLE statements.  *)
(***************************************************************************)
\* conversion of a Python value to a MySQL parameter: an empty cell (NaN)
\* is sent as NULL, every other value as itself.
to_mysql(v) == IF v = NaN THEN NULL ELSE v

\* The integer columns (data_pipeline.py 114, 146); their cells are never
\* empty in the files of the model.
IntFields == {"beds", "experience_years", "hospital_id"}

\* The record as the server receives it (db_connection.py 273).
bound_params(d) ==
    [f \in DOMAIN d |-> IF f \in IntFields THEN d[f] ELSE to_mysql(d[f])]

\* data_pipeline.py 111, 141: the NOT NULL columns of each table.
not_null_ok(t, r) ==
    IF t = "hospitals" THEN r.hospital_name # NULL
    ELSE IF t = "doctors" THEN r.doctor_name # NULL
    ELSE TRUE

\* unique_ok for a table created without the UNIQUE KEY.
unique_ok_without_key(t, rows, r) == TRUE

\* data_pipeline.py 117: UNIQUE KEY unique_hospital (hospital_name, state).
\* A MySQL unique index compares no NULL equal to anything: a row with a
\* NULL in a key column conflicts with no row.
unique_ok(t, rows, r) ==
    IF t = "hospitals" THEN
        \A i \in DOMAIN rows :
            ~(/\ r.hospital_name # NULL /\ r.state # NULL
              /\ rows[i].hospital_name = r.hospital_name
              /\ rows[i].state = r.state)
    ELSE TRUE

\* data_pipeline.py 142, 172: hospital_id INT, a nullable column without a
\* default.  Hospital ids are AUTO_INCREMENT integers from 1 (line 110); 0
\* stands for the NULL of this column.
NULL_ID == 0

\* data_pipeline.py 148, 179: FOREIGN KEY (hospital_id) REFERENCES
\* hospitals(hospital_id).  A NULL hospital_id references nothing; the ids of the
\* stored hospitals are taken to be their positions.
fk_ok(t, rows, r) ==
    \/ t = "hospitals"
    \/ "hospital_id" \notin DOMAIN r
    \/ r.hospital_id = NULL_ID
    \/ r.hospital_id \in 1..Len(rows)

\* The row the server stores for the record r: a column of doctors and of
\* emergency_services that the INSERT statement does not name is NULL.
stored_row(t, r) ==
    IF t = "hospitals" THEN r
    ELSE [f \in DOMAIN r \cup {"hospital_id"} |->
            IF f \in DOMAIN r THEN r[f] ELSE NULL_ID]

\* Whether the server accepts INSERT INTO t of the record r.
insert_accepted(t, r) ==
    /\ t \in tables
    /\ not_null_ok(t, r)
    /\ unique_ok(t, store[t], r)
    /\ fk_ok(t, store["hospitals"], r)

\* create_accepted for a statement without IF NOT EXISTS: the server
\* rejects the CREATE of a table that exists.
create_accepted_without_if_not_exists(t) ==
    /\ t \notin tables
    /\ (t = "hospitals" \/ "hospitals" \in tables)

\* Whether the server accepts CREATE TABLE IF NOT EXISTS t: the two tables
\* with FOREIGN KEY ... REFERENCES hospitals need the hospitals table
\* (data_pipeline.py 148, 179); an existing table is left alone.
create_accepted(t) ==
    \/ t \in tables
    \/ t = "hospitals"
    \/ "hospitals" \in tables

(***************************************************************************)
(* Connection Manager                                                      *)
(***************************************************************************)
\* What mysql.connector.connect and is_connected can do.
ConnectOutcomes == {"connected", "error", "not_connected"}

\* db_connection.py 104-111.  The try block has no return on the path where
\* connect returns and is_connected() is false: the function returns None.
get_db_connection(o) ==
    IF o = "error" THEN [kind |-> "raise", value |-> "Error"]
    ELSE IF o = "connected" THEN [kind |-> "return", value |-> "connection"]
    ELSE [kind |-> "return", value |-> "None"]

\* db_connection.py 196-204.  o: outcome of the connect; still: is_connected()
\* at line 198.
test_connection(o, still) ==
    LET r == get_db_connection(o) IN
    IF r.kind = "raise" THEN [kind |-> "return", value |-> "False"]
    ELSE IF r.value = "None" THEN [kind |-> "raise", value |-> "AttributeError"]
    ELSE IF still THEN [kind |-> "return", value |-> "True"]
    ELSE [kind |-> "return", value |-> "None"]

\* What the body of a scope can do besides running its statement:
\*   ok        the statement is sent and the body ends
\*   Error     the driver raises mysql.connector.Error, connection alive
\*   ErrorLost the driver raises mysql.connector.Error, connection lost
\*   Other     the statement is sent, then the body raises an exception that
\*             is not a mysql.connector.Error (a TypeError, say)
BodyOutcomes == {"ok", "Error", "ErrorLost", "Other"}

\* What db.commit() can do.
CommitOutcomes == {"ok", "Error", "ErrorLost"}

\* scope_exit with the cursor and the connection closed on the normal path
\* only (no finally block).
scope_exit_without_finally(b, d, o) ==
    LET committed == b = "none" /\ o = "ok"
        raised == IF b = "none" THEN (IF o = "ok" THEN "none" ELSE "Error") ELSE b
        alive == d = "live" /\ ~(b = "none" /\ o = "ErrorLost")
    IN  [calls |-> (IF b = "none" THEN <<"commit">> ELSE <<>>)
                   \o (IF raised = "Error" THEN <<"rollback">> ELSE <<>>)
                   \o (IF raised = "none" THEN <<"cursor.close", "db.close">> ELSE <<>>),
         exc |-> raised,
         committed |-> committed,
         db |-> IF raised = "none" THEN "closed"
                ELSE IF alive THEN "live" ELSE "lost"]

\* scope_exit on a connection in autocommit mode: the statement of the body
\* is stored whatever db.commit() does afterwards.
scope_exit_autocommit(b, d, o) ==
    LET raised == IF b = "none" THEN (IF o = "ok" THEN "none" ELSE "Error") ELSE b
        alive == d = "live" /\ ~(b = "none" /\ o = "ErrorLost")
    IN  [calls |-> (IF b = "none" THEN <<"commit">> ELSE <<>>)
                   \o (IF raised = "Error" THEN <<"rollback">> ELSE <<>>)
                   \o <<"cursor.close">>
                   \o (IF alive THEN <<"db.close">> ELSE <<>>),
         exc |-> raised,
         committed |-> b = "none",
         db |-> IF alive THEN "closed" ELSE "lost"]

\* db_connection.py 165-177: the part of get_db_cursor after the yield.
\* b: what the body raised; o: outcome of commit.  The result gives the calls
\* made, in order, the exception that leaves the scope, whether the
\* transaction was committed and the state of the connection afterwards.
scope_exit(b, d, o) ==
    LET commitCalls == IF b = "none" THEN <<"commit">> ELSE <<>>
        committed == b = "none" /\ o = "ok"
        raised == IF b = "none" THEN (IF o = "ok" THEN "none" ELSE "Error") ELSE b
        alive == d = "live" /\ ~(b = "none" /\ o = "ErrorLost")
        \* except Error as e: if db: db.rollback()
        rollbackCalls == IF raised = "Error" THEN <<"rollback">> ELSE <<>>
        \* finally: if cursor: cursor.close()
        cursorCalls == <<"cursor.close">>
        \* finally: if db and db.is_connected(): db.close()
        closeCalls == IF alive THEN <<"db.close">> ELSE <<>>
    IN  [calls |-> commitCalls \o rollbackCalls \o cursorCalls \o closeCalls,
         exc |-> raised,
         committed |-> committed,
         db |-> IF alive THEN "closed" ELSE "lost"]

(***************************************************************************)
(* State                                                                   *)
(***************************************************************************)
NoCounts == [e \in 1..3 |-> -1]
EmptyStore == [t \in {"hospitals", "doctors", "emergency_services"} |-> <<>>]
AllTables == {"hospitals", "doctors", "emergency_services"}

\* The rows an earlier run of setup_database left behind when each of its
\* three files held one row under the human-readable header.
LoadedStore ==
    [t \in AllTables |->
        LET e == CHOOSE i \in 1..3 : TableNames[i] = t
            v == CHOOSE c \in CellValues(e) :
                    \A f \in DOMAIN c : f \in IntFields \/ c[f] # NaN
        IN  <<stored_row(t, bound_params(row_to_record(e, MakeRow(e, "primary", v))))>>]

\* The databases a run can start on: no table yet, the three tables
\* created and empty, the three tables as an earlier run loaded them.
Databases ==
    {[tables |-> {}, store |-> EmptyStore],
     [tables |-> AllTables, store |-> EmptyStore],
     [tables |-> AllTables, store |-> LoadedStore]}

\* The table the current scope works on.
table == TableNames[ent]

\* The dictionary data of the current loop iteration.
data == row_to_record(ent, df[idx])

\* The program before setup_database is called.
InitRun ==
    /\ pc = "NotStarted"
    /\ ent = 1
    /\ csv = "none"
    /\ df = <<>>
    /\ idx = 1
    /\ count = 0
    /\ counts = NoCounts
    /\ createRes = "none"
    /\ propagated = "none"
    /\ summary = FALSE
    /\ sc = "none"
    /\ db = "None"
    /\ cursor = "None"
    /\ pending = <<>>
    /\ bodyExc = "none"
    /\ exc = "none"
    /\ events = <<>>
    /\ lastConn = [kind |-> "none", value |-> "none"]
    /\ openConns = 0
    /\ \E d \in Databases :
        /\ tables = d.tables
        /\ store = d.store
        /\ initial = Len(d.store["hospitals"])
    /\ testRet = [kind |-> "none", value |-> "none"]
    /\ createLog = <<>>
    /\ attempts = <<>>
    /\ tried = 0
    /\ failed = 0
    /\ before = 0
    /\ connFailed = FALSE
    /\ file = "none"
    /\ fault = FALSE

Init ==
    /\ InitRun
    /\ srcRow = <<>>
    /\ rec = [kind |-> "none", value |-> <<>>]

(***************************************************************************)
(* get_db_cursor, in three steps                                           *)
(***************************************************************************)
\* db_connection.py 159-164 (and 167-177 when the connection is not made):
\* entered by a create step (data_pipeline.py 122, 153, 184) or by
\* insert_data (db_connection.py 272).
ScopeEnter ==
    /\ pc \in {"create", "row"}
    /\ sc = "none"
    /\ \E o \in ConnectOutcomes :
        LET r == get_db_connection(o) IN
        /\ lastConn' = r
        /\ IF r.kind = "raise"
           THEN \* except Error: db is None, nothing to roll back; re-raised
                /\ sc' = "ended" /\ exc' = "Error"
                /\ db' = "None" /\ cursor' = "None"
                /\ openConns' = openConns
           ELSE IF r.value = "None"
           THEN \* db.cursor on None: AttributeError, not an Error
                /\ sc' = "ended" /\ exc' = "AttributeError"
                /\ db' = "None" /\ cursor' = "None"
                /\ openConns' = openConns
           ELSE /\ sc' = "body" /\ exc' = "none"
                /\ db' = "live" /\ cursor' = "open"
                /\ openConns' = openConns + 1
        /\ connFailed' = (connFailed \/ (pc = "create" /\ r.kind = "raise"))
        /\ fault' = (o # "connected")
    /\ events' = <<>>
    /\ bodyExc' = "none"
    /\ pending' = <<>>
    /\ createLog' = IF pc = "create" THEN Append(createLog, table) ELSE createLog
    /\ attempts' = IF pc = "row" THEN AppendNew(attempts, table) ELSE attempts
    /\ tried' = IF pc = "row" THEN tried + 1 ELSE tried
    /\ UNCHANGED <<pc, ent, csv, df, idx, count, counts, createRes,
                   propagated, summary, tables, store, testRet, failed, before,
                   file, constVars>>

\* The body of the scope: cursor.execute of the CREATE TABLE statement
\* (data_pipeline.py 123, 154, 185) or of the INSERT (db_connection.py 273),
\* followed by a print.
ScopeBody ==
    /\ sc = "body"
    /\ \E o \in BodyOutcomes :
        LET accepted == IF pc = "create" THEN create_accepted(table)
                        ELSE insert_accepted(table, bound_params(data))
            raised == IF o \in {"Error", "ErrorLost"} THEN "Error"
                      ELSE IF ~accepted THEN "Error"
                      ELSE IF o = "Other" THEN "Exception"
                      ELSE "none"
            ran == o \in {"ok", "Other"} /\ accepted
        IN
        /\ bodyExc' = raised
        /\ db' = IF o = "ErrorLost" THEN "lost" ELSE db
        /\ openConns' = IF o = "ErrorLost" THEN openConns - 1 ELSE openConns
        \* CREATE TABLE commits implicitly; INSERT waits for the commit
        /\ tables' = IF ran /\ pc = "create" THEN tables \cup {table} ELSE tables
        /\ pending' = IF ran /\ pc = "row"
                      THEN <<stored_row(table, bound_params(data))>> ELSE <<>>
        /\ fault' = (o # "ok")
    /\ events' = Append(events, "execute")
    /\ sc' = "exit"
    /\ UNCHANGED <<pipeVars, constVars, cursor, exc, lastConn, store, testRet>>

\* db_connection.py 165-177.
ScopeExit ==
    /\ sc = "exit"
    /\ \E o \in (IF bodyExc = "none" THEN CommitOutcomes ELSE {"ok"}) :
        LET x == scope_exit(bodyExc, db, o) IN
        /\ events' = events \o x.calls
        /\ exc' = x.exc
        /\ db' = x.db
        /\ openConns' = IF db = "live" /\ x.db # "live"
                        THEN openConns - 1 ELSE openConns
        /\ store' = IF x.committed
                    THEN [store EXCEPT ![table] = store[table] \o pending]
                    ELSE store
        /\ cursor' = IF CountOf(x.calls, "cursor.close") > 0
                     THEN "closed" ELSE cursor
        /\ fault' = (fault \/ o # "ok")
    /\ pending' = <<>>
    /\ sc' = "ended"
    /\ UNCHANGED <<pipeVars, constVars, bodyExc, lastConn, tables, testRet>>

(***************************************************************************)
(* Schema Initializer and Load Orchestrator                                *)
(***************************************************************************)
\* The locals of a finished get_db_cursor call are gone once its caller has
\* handled the outcome.
ScopeGone ==
    /\ sc' = "none" /\ db' = "None" /\ cursor' = "None"
    /\ bodyExc' = "none" /\ exc' = "none" /\ events' = <<>>
    /\ lastConn' = [kind |-> "none", value |-> "none"]
    /\ fault' = FALSE

\* data_pipeline.py 311-317: setup_database starts with the first create.
Start ==
    /\ pc = "NotStarted"
    /\ pc' = "create"
    /\ ent' = 1
    /\ testRet' = [kind |-> "none", value |-> "none"]
    /\ lastConn' = [kind |-> "none", value |-> "none"]
    /\ UNCHANGED <<csv, df, idx, count, counts, createRes, propagated, summary,
                   sc, db, cursor, pending, bodyExc, exc, events, openConns,
                   tables, store, createLog, attempts, tried, failed, before,
                   connFailed, file, fault, constVars>>

\* data_pipeline.py 121-128, 152-159, 183-190: what a create step does with
\* the outcome of its scope.  "raise": the exception is not an Error and
\* leaves the function.
create_table_result(e) ==
    IF e = "none" THEN "True"
    ELSE IF e = "Error" THEN "False"
    ELSE "raise"

\* The end of a create step, and data_pipeline.py 317-319: setup_database
\* drops the returned value and calls the next create step.
CreateReturn ==
    /\ pc = "create"
    /\ sc = "ended"
    /\ LET res == create_table_result(exc) IN
       /\ createRes' = res
       /\ IF res = "raise"
          THEN /\ pc' = "Failed" /\ propagated' = exc /\ ent' = ent
          ELSE /\ propagated' = propagated
               /\ IF ent < 3
                  THEN pc' = "create" /\ ent' = ent + 1
                  ELSE pc' = "TablesReady" /\ ent' = ent
    /\ ScopeGone
    /\ UNCHANGED <<csv, df, idx, count, counts, summary, pending, openConns,
                   tables, store, testRet, createLog, attempts, tried, failed,
                   before, connFailed, file, constVars>>

\* BeginLoads with the load calls placed before the create calls are over.
BeginLoads_before_creates ==
    /\ pc = "create" /\ sc = "none"
    /\ pc' = "load"
    /\ ent' = 1
    /\ createRes' = "none"
    /\ connFailed' = FALSE
    /\ UNCHANGED <<csv, df, idx, count, counts, propagated, summary,
                   scopeVars, tables, store, testRet, createLog, attempts,
                   tried, failed, before, file, constVars>>

\* data_pipeline.py 321-323: the three load calls begin.
BeginLoads ==
    /\ pc = "TablesReady"
    /\ pc' = "load"
    /\ ent' = 1
    /\ createRes' = "none"
    /\ connFailed' = FALSE
    /\ UNCHANGED <<csv, df, idx, count, counts, propagated, summary,
                   scopeVars, tables, store, testRet, createLog, attempts,
                   tried, failed, before, file, constVars>>

\* load_csv_data without the os.path.exists test, a missing file read as
\* a table of no rows.
load_csv_data_default_on_missing(f, d) ==
    IF f = "zero_bytes" THEN [kind |-> "raise", value |-> "EmptyDataError"]
    ELSE [kind |-> "return", value |-> d]

\* data_pipeline.py 81-90: load_csv_data.  A path with no file raises
\* FileNotFoundError, a file of zero bytes makes read_csv raise
\* EmptyDataError, any other file gives a DataFrame (of zero rows when the
\* file holds a header line only).
load_csv_data(f, d) ==
    IF f = "missing" THEN [kind |-> "raise", value |-> "FileNotFoundError"]
    ELSE IF f = "zero_bytes" THEN [kind |-> "raise", value |-> "EmptyDataError"]
    ELSE [kind |-> "return", value |-> d]

\* load_caught catching FileNotFoundError only.
load_caught_if_missing(e) == e = "FileNotFoundError"

\* data_pipeline.py 227-229, 262-264, 297-299: "except Exception" around the
\* body of a load function catches whatever load_csv_data raises.
load_caught(e) == TRUE

\* data_pipeline.py 200-208, 239-243, 274-278: the head of a load function.
LoadCsv ==
    /\ pc = "load"
    /\ \E f \in FileKinds, d \in DataFrames(ent) :
        LET r == load_csv_data(f, d) IN
        /\ f # "csv" => d = <<>>
        /\ file' = f
        /\ csv' = IF r.kind = "return" THEN "ok" ELSE r.value
        /\ df' = IF r.kind = "return" THEN r.value ELSE <<>>
        /\ pc' = IF r.kind = "raise"
                 THEN (IF load_caught(r.value) THEN "loaded" ELSE "Failed")
                 ELSE IF r.value # <<>> THEN "row" ELSE "loaded"
        /\ propagated' = IF r.kind = "raise" /\ ~load_caught(r.value)
                         THEN r.value ELSE propagated
    /\ idx' = 1
    /\ count' = 0
    /\ tried' = 0 /\ failed' = 0
    /\ before' = Len(store[table])
    /\ UNCHANGED <<ent, counts, createRes, summary,
                   scopeVars, tables, store, testRet, createLog, attempts,
                   connFailed, constVars>>

\* row_counted with count += 1 placed before the call of insert_data.
row_counted_before_insert(e) == TRUE

\* loop_continues with the handler of the loop written "except Error".
loop_continues_on_driver_errors(e) == e \in {"none", "Error"}

\* data_pipeline.py 219-223, 254-258, 289-293: what the loop does with the
\* outcome of insert_data (db_connection.py 276-278 re-raises an Error; any
\* other exception passes through).  TRUE: the row is counted.
row_counted(e) == e = "none"

\* Whether the loop goes on to the next row after an outcome of insert_data
\* (except Exception: continue).
loop_continues(e) == TRUE

InsertReturn ==
    /\ pc = "row"
    /\ sc = "ended"
    /\ count' = IF row_counted(exc) THEN count + 1 ELSE count
    /\ failed' = IF exc = "none" THEN failed ELSE failed + 1
    /\ IF ~loop_continues(exc)
       THEN pc' = "Failed" /\ propagated' = exc /\ idx' = idx
       ELSE /\ propagated' = propagated
            /\ IF idx < Len(df)
               THEN pc' = "row" /\ idx' = idx + 1
               ELSE pc' = "loaded" /\ idx' = idx
    /\ ScopeGone
    /\ UNCHANGED <<ent, csv, df, counts, createRes, summary, pending,
                   openConns, tables, store, testRet, createLog, attempts,
                   tried, before, connFailed, file, constVars>>

\* data_pipeline.py 225-229: the value a load function returns.
load_result(o, c) == IF o = "ok" THEN c ELSE 0

\* The return of a load function and data_pipeline.py 323-325: the next one.
LoadReturn ==
    /\ pc = "loaded"
    /\ counts' = [counts EXCEPT ![ent] = load_result(csv, count)]
    /\ IF ent < 3
       THEN pc' = "load" /\ ent' = ent + 1
       ELSE pc' = "summary" /\ ent' = ent
    \* the locals of the load function are gone
    /\ csv' = "none" /\ df' = <<>> /\ idx' = 1 /\ count' = 0
    /\ tried' = 0 /\ failed' = 0 /\ before' = 0
    /\ file' = "none"
    /\ UNCHANGED <<createRes, propagated, summary, scopeVars, tables, store,
                   testRet, createLog, attempts, connFailed, constVars>>

\* data_pipeline.py 327-334: the summary.
Summary ==
    /\ pc = "summary"
    /\ summary' = TRUE
    /\ pc' = "Complete"
    /\ UNCHANGED <<ent, csv, df, idx, count, counts, createRes,
                   propagated, scopeVars, tables, store, testRet, createLog,
                   attempts, tried, failed, before, connFailed, file,
                   constVars>>

\* db_connection.py 180-204: test_connection, called on its own
\* (db_connection.py 357) before a run.
TestConnection ==
    /\ pc = "NotStarted"
    /\ \E o \in ConnectOutcomes, still \in BOOLEAN :
        /\ o # "connected" => still
        /\ lastConn' = get_db_connection(o)
        /\ testRet' = test_connection(o, still)
    /\ UNCHANGED <<pipeVars, constVars, sc, db, cursor, pending, bodyExc, exc, events,
                   openConns, fault, tables, store>>

Next ==
    \/ Start
    \/ ScopeEnter
    \/ ScopeBody
    \/ ScopeExit
    \/ CreateReturn
    \/ BeginLoads
    \/ LoadCsv
    \/ InsertReturn
    \/ LoadReturn
    \/ Summary
    \/ TestConnection

Spec == Init /\ [][Next]_vars

\* The program is sequential: a step that can be taken is taken.
FairSpec == Spec /\ WF_vars(Next)

(***************************************************************************)
(* The hospital row transformer on its own                                 *)
(***************************************************************************)
\* The columns load_hospital_data looks up (data_pipeline.py 212-216).
HospitalColumns ==
    {PrimaryColumn[1][f] : f \in DOMAIN PrimaryColumn[1]}
        \cup DOMAIN PrimaryColumn[1]

\* The cell of a source row under column c: a number of beds, or a text
\* that tells the column it was read from.
ColumnCell(c) ==
    IF c = "Number of Beds" THEN 200 ELSE IF c = "beds" THEN 150 ELSE c

\* The source rows: one for every subset of the columns that is present.
HospitalRows ==
    {[c \in cols |-> ColumnCell(c)] : cols \in SUBSET HospitalColumns}

\* transform_hospital reading the primary columns with row[...].
transform_hospital_by_subscript(row) ==
    IF \A f \in DOMAIN PrimaryColumn[1] : PrimaryColumn[1][f] \in DOMAIN row
    THEN [kind |-> "return", value |-> hospital_record(row)]
    ELSE [kind |-> "raise", value |-> "KeyError"]

\* data_pipeline.py 210-217: the dictionary built from one row; row.get
\* raises for no key.
transform_hospital(row) ==
    [kind |-> "return", value |-> hospital_record(row)]

InitRow ==
    /\ InitRun
    /\ srcRow \in HospitalRows
    /\ rec = [kind |-> "none", value |-> <<>>]

Transform ==
    /\ rec.kind = "none"
    /\ rec' = transform_hospital(srcRow)
    /\ UNCHANGED <<pipeVars, scopeVars, tables, store, testRet, srcRow,
                   initial>>

NextRow == Transform

SpecRow == InitRow /\ [][NextRow]_vars

(***************************************************************************)
(* The run state machine of setup_database                                 *)
(***************************************************************************)
Phase ==
    IF pc = "create" THEN "TablesCreating"
    ELSE IF pc \in {"load", "row", "loaded", "summary"}
    THEN (IF pc = "summary" THEN "LoadingEmergency"
          ELSE <<"LoadingHospitals", "LoadingDoctors", "LoadingEmergency">>[ent])
    ELSE pc

(***************************************************************************)
(* Helpers of the properties                                               *)
(***************************************************************************)
Called(e) == CountOf(events, e) > 0

\* The scope has ended and its body had run its statement.
ScopeEndedAfterBody == sc = "ended" /\ Called("execute")

\* The scope has ended and a connection had been acquired in it.
ScopeEndedWithConnection ==
    sc = "ended" /\ lastConn = [kind |-> "return", value |-> "connection"]

\* Position of a table in the order of setup_database.
TableIndex(t) == CHOOSE i \in 1..3 : TableNames[i] = t

PhaseOrder ==
    <<"NotStarted", "TablesCreating", "TablesReady", "LoadingHospitals",
      "LoadingDoctors", "LoadingEmergency", "Complete">>

PhaseRank(p) == CHOOSE i \in 1..7 : PhaseOrder[i] = p

(***************************************************************************)
(* C1.  For every use of get_db_cursor whose body ran: when the body exits *)
(* normally the work is committed (and, the commit having succeeded, not   *)
(* rolled back); when the body raises any exception, driver error or not,  *)
(* rollback is called and commit is not.                                   *)
(* The code calls rollback only under "except Error": a non-driver         *)
(* exception leaves the scope with no rollback call.                       *)
(***************************************************************************)
C1_CommitOrRollback ==
    ScopeEndedAfterBody =>
        /\ bodyExc = "none" =>
              /\ Called("commit")
              /\ exc = "none" => ~Called("rollback")
        /\ bodyExc # "none" => Called("rollback") /\ ~Called("commit")

(***************************************************************************)
(* C2 as claimed.  In every scope that acquired a connection, on every     *)
(* exit path the cursor is closed exactly once, then the connection is     *)
(* closed exactly once, and no connection stays open.                      *)
(***************************************************************************)
C2_ClosedExactlyOnce ==
    ScopeEndedWithConnection =>
        /\ CountOf(events, "cursor.close") = 1
        /\ CountOf(events, "db.close") = 1
        /\ \A i, j \in DOMAIN events :
              events[i] = "cursor.close" /\ events[j] = "db.close" => i < j
        /\ openConns = 0

(***************************************************************************)
(* C2 as amended.  In every scope that acquired a connection, on every     *)
(* exit path the cursor is closed exactly once; the connection is closed   *)
(* exactly once, after the cursor, when it is still connected, and is not  *)
(* closed when the driver reports it lost; no connection stays open.       *)
(***************************************************************************)
C2_ReleasedOnEveryPath ==
    ScopeEndedWithConnection =>
        /\ CountOf(events, "cursor.close") = 1
        /\ cursor = "closed"
        /\ db \in {"closed", "lost"}
        /\ CountOf(events, "db.close") = (IF db = "closed" THEN 1 ELSE 0)
        /\ \A i, j \in DOMAIN events :
              events[i] = "cursor.close" /\ events[j] = "db.close" => i < j
        /\ openConns = 0

\* A scope left by a non-driver exception, its connection still connected.
C2_Witness ==
    /\ ScopeEndedWithConnection
    /\ bodyExc = "Exception"
    /\ db = "closed"

(***************************************************************************)
(* C3.  When the connection cannot be made during table creation, the run  *)
(* aborts: it ends Failed and never gets to TablesReady, so that no CSV    *)
(* load or insert is attempted after.                                      *)
(* The code turns the failure into a returned False that setup_database    *)
(* drops, and goes on to TablesReady and the loads.                        *)
(***************************************************************************)
C3_ConnectFailureAborts ==
    connFailed => Phase \in {"TablesCreating", "Failed"}

(***************************************************************************)
(* C4.  The phases of a run occur in the order NotStarted, TablesCreating, *)
(* TablesReady, LoadingHospitals, LoadingDoctors, LoadingEmergency,        *)
(* Complete: no insert before the three create steps were attempted in     *)
(* order, hospital inserts before doctor inserts before emergency inserts, *)
(* the summary only after the three loads have ended.                      *)
(***************************************************************************)
C4_StateInv ==
    /\ \E k \in 0..3 : createLog = SubSeq(TableNames, 1, k)
    /\ attempts # <<>> => createLog = TableNames
    /\ Phase \in {"TablesReady", "LoadingHospitals", "LoadingDoctors",
                  "LoadingEmergency", "Complete"} => createLog = TableNames
    /\ \A i, j \in DOMAIN attempts :
          i < j => TableIndex(attempts[i]) < TableIndex(attempts[j])
    /\ \A i \in DOMAIN attempts :
          /\ TableIndex(attempts[i]) <= ent
          /\ counts[TableIndex(attempts[i])] >= 0 \/ TableIndex(attempts[i]) = ent
    /\ summary => Phase = "Complete" /\ \A e \in 1..3 : counts[e] >= 0

C4_PhaseStep ==
    \/ Phase' = Phase
    \/ Phase # "Failed" /\ Phase' # "Failed" /\ Phase # "Complete"
         /\ PhaseRank(Phase') = PhaseRank(Phase) + 1
    \/ Phase' = "Failed"

\* C4: the order of the creates, the inserts and the summary holds in every
\* state, and every step keeps the phase or moves it one phase forward.
C4_PhaseOrder == []C4_StateInv /\ [][C4_PhaseStep]_vars

\* A complete run that inserted into all three tables.
C4_Witness == Phase = "Complete" /\ summary /\ attempts = TableNames

(***************************************************************************)
(* C5.  Once the run has left table creation no failure moves it to        *)
(* Failed: Failed is entered only from TablesCreating, and from            *)
(* TablesReady the run always reaches Complete with the summary printed,   *)
(* whatever rows fail.                                                     *)
(***************************************************************************)
\* C5: Failed is entered from TablesCreating only; TablesReady leads to
\* Complete.
C5_FailedOnlyFromCreating ==
    /\ [][Phase' = "Failed" => Phase \in {"TablesCreating", "Failed"}]_vars
    /\ (Phase = "TablesReady") ~> (Phase = "Complete" /\ summary)

\* A complete run in which every insert of every table failed.
C5_Witness ==
    /\ Phase = "Complete" /\ summary
    /\ attempts = TableNames
    /\ counts = [e \in 1..3 |-> 0]

(***************************************************************************)
(* C6.  For a hospital CSV of N rows of which k fail on insert, the load   *)
(* attempts all N inserts, stores exactly N-k rows and returns N-k, which  *)
(* is the count setup_database reports.                                    *)
(***************************************************************************)
C6_HospitalCount ==
    /\ pc = "loaded" /\ ent = 1 /\ csv = "ok" =>
          /\ tried = Len(df)
          /\ Len(store["hospitals"]) - before = Len(df) - failed
          /\ count = Len(df) - failed
          /\ load_result(csv, count) = Len(df) - failed
    /\ counts[1] >= 0 => counts[1] = Len(store["hospitals"]) - initial

\* Two rows, the first failed, the second stored.
C6_Witness ==
    /\ pc = "loaded" /\ ent = 1 /\ csv = "ok"
    /\ Len(df) = MaxRows /\ failed = 1 /\ count = MaxRows - 1
    /\ Len(store["hospitals"]) = MaxRows - 1

(***************************************************************************)
(* C7.  The hospitals table holds at most one row for each                 *)
(* (hospital_name, state) pair.                                            *)
(* The unique key is declared on a nullable column: two rows with the same *)
(* name and an empty state are both stored.                                *)
(***************************************************************************)
C7_UniquePair ==
    \A i, j \in DOMAIN store["hospitals"] :
        i < j =>
            ~(/\ store["hospitals"][i].hospital_name = store["hospitals"][j].hospital_name
              /\ store["hospitals"][i].state = store["hospitals"][j].state)

(***************************************************************************)
(* C8.  test_connection always returns a boolean and never raises.         *)
(* When connect returns a connection that is not connected the code raises *)
(* AttributeError or returns None.                                         *)
(***************************************************************************)
C8_TestReturnsBool ==
    testRet.kind # "none" =>
        testRet.kind = "return" /\ testRet.value \in {"True", "False"}

(***************************************************************************)
(* C9.  get_db_connection either returns a live connection or fails with a *)
(* connection error; it never returns without a connection.                *)
(***************************************************************************)
C9_LiveOrError ==
    lastConn.kind = "return" => lastConn.value = "connection"

(***************************************************************************)
(* C10.  For each entity and each target field the record built from a row *)
(* holds the value of the primary column when present, otherwise of the    *)
(* snake_case column when present, otherwise the default.                  *)
(* The doctor and emergency loops look up the primary column only.         *)
(***************************************************************************)
C10_Expected(e, row) ==
    [f \in DOMAIN DefaultValue[e] |->
        IF PrimaryColumn[e][f] \in DOMAIN row THEN row[PrimaryColumn[e][f]]
        ELSE IF f \in DOMAIN row THEN row[f]
        ELSE DefaultValue[e][f]]

\* C10: the record of the row the loop is at is the primary / snake_case /
\* default mapping of that row.
C10_FallbackMapping ==
    pc = "row" => data = C10_Expected(ent, df[idx])

(***************************************************************************)
(* C11.  The hospital transformation raises for no source row and gives a  *)
(* record of the five target fields, whichever columns the row lacks: a    *)
(* field whose two source columns are both missing has its default, so     *)
(* beds is 0 for a row with neither "Number of Beds" nor "beds".           *)
(***************************************************************************)
C11_TransformTotal ==
    rec.kind # "none" =>
        /\ rec.kind = "return"
        /\ DOMAIN rec.value = DOMAIN DefaultValue[1]
        /\ {"Number of Beds", "beds"} \cap DOMAIN srcRow = {}
              => rec.value.beds = 0
        /\ \A f \in DOMAIN DefaultValue[1] :
              {PrimaryColumn[1][f], f} \cap DOMAIN srcRow = {}
                  => rec.value[f] = DefaultValue[1][f]

\* A row with a name and a state and neither column of beds, transformed.
C11_Witness ==
    /\ rec.kind = "return"
    /\ {"Hospital Name", "State"} \subseteq DOMAIN srcRow
    /\ {"Number of Beds", "beds"} \cap DOMAIN srcRow = {}
    /\ rec.value.beds = 0
    /\ rec.value.hospital_name = "Hospital Name"

(***************************************************************************)
(* C12.  Every row stored in doctors and in emergency_services has a NULL  *)
(* hospital_id, so that every hospital_id that is set references a stored  *)
(* hospital.                                                               *)
(***************************************************************************)
C12_HospitalIdNull ==
    \A t \in {"doctors", "emergency_services"} :
        \A i \in DOMAIN store[t] :
            /\ store[t][i].hospital_id = NULL_ID
            /\ store[t][i].hospital_id # NULL_ID
                  => store[t][i].hospital_id \in 1..Len(store["hospitals"])

\* A run has stored doctors and emergency services and hospitals as well.
C12_Witness ==
    /\ pc = "Complete"
    /\ counts[1] > 0 /\ counts[2] > 0 /\ counts[3] > 0
    /\ Len(store["doctors"]) >= MaxRows

(***************************************************************************)
(* C13.  A create step on a table that exists, with the connection made    *)
(* and kept and no driver failure, raises nothing and returns True; no     *)
(* step of a create step on an existing table changes the set of tables    *)
(* or a stored row.                                                        *)
(***************************************************************************)
C13_Inv ==
    pc = "create" /\ sc = "ended" /\ ~fault /\ table \in tables =>
        /\ exc = "none"
        /\ create_table_result(exc) = "True"

C13_Step ==
    pc = "create" /\ table \in tables => tables' = tables /\ store' = store

C13_CreateIdempotent == []C13_Inv /\ [][C13_Step]_vars

\* The third create step of a run on the database an earlier run loaded.
C13_Witness ==
    /\ pc = "create" /\ sc = "ended" /\ ~fault /\ ent = 3
    /\ createLog = <<"hospitals", "doctors", "emergency_services">>
    /\ exc = "none"
    /\ tables = AllTables
    /\ store = LoadedStore

C15_CreateReturnsBool ==
    /\ createRes \in {"none", "True", "False"}
    /\ pc = "create" /\ sc = "ended"
          => create_table_result(exc) \in {"True", "False"}

(***************************************************************************)
(* C16.  load_csv_data on a path with no file raises FileNotFoundError and *)
(* returns no table.                                                       *)
(***************************************************************************)
C16_MissingFileRaises ==
    file = "missing" => csv = "FileNotFoundError" /\ df = <<>>

\* The doctors file is missing.
C16_Witness ==
    /\ file = "missing" /\ ent = 2 /\ pc = "loaded"
    /\ csv = "FileNotFoundError"

(***************************************************************************)
(* C17.  load_csv_data raises EmptyDataError for every file without a data *)
(* row and returns no table of zero rows.                                  *)
(***************************************************************************)
C17_EmptyDataOnNoRows ==
    file \in {"zero_bytes", "csv"} /\ df = <<>> => csv = "EmptyDataError"

(***************************************************************************)
(* C18.  In each load function the count is the number of rows committed   *)
(* in this call, which is the number of rows the call has added to its     *)
(* table, and the function returns it; a row whose commit failed is rolled *)
(* back, not stored and not counted.                                       *)
(***************************************************************************)
C18_CountIsCommitted ==
    /\ pc \in {"row", "loaded"} /\ csv = "ok" =>
          Len(store[table]) - before =
              count + (IF pc = "row" /\ sc = "ended" /\ exc = "none"
                       THEN 1 ELSE 0)
    /\ pc = "loaded" => load_result(csv, count) = Len(store[table]) - before
    /\ pc = "row" /\ sc = "ended" /\ Called("commit") /\ exc # "none" =>
          /\ Called("rollback")
          /\ Len(store[table]) - before = count

\* The second emergency row: its INSERT ran, its commit failed; the first
\* row is stored and counted.
C18_Witness ==
    /\ pc = "row" /\ ent = 3 /\ idx = MaxRows
    /\ sc = "ended" /\ Called("execute") /\ Called("commit") /\ exc = "Error"
    /\ count = MaxRows - 1
    /\ Len(store[table]) - before = MaxRows - 1

(***************************************************************************)
(* C19.  A load function whose CSV file cannot be read tries no insert,    *)
(* stores no row and returns 0; no step of it changes the database; the    *)
(* run goes on with the next load and reaches the summary.                 *)
(***************************************************************************)
C19_Inv ==
    pc = "loaded" /\ csv # "ok" =>
        /\ tried = 0 /\ count = 0
        /\ load_result(csv, count) = 0
        /\ Len(store[table]) = before

C19_Step ==
    /\ pc = "load" => store' = store /\ tables' = tables /\ pc' # "Failed"
    /\ pc = "loaded" /\ csv # "ok" =>
          /\ store' = store /\ tables' = tables
          /\ counts' = [counts EXCEPT ![ent] = 0]
          /\ pc' = IF ent < 3 THEN "load" ELSE "summary"

C19_FailedLoadIsSkipped ==
    /\ []C19_Inv
    /\ [][C19_Step]_vars
    /\ (pc = "loaded" /\ csv # "ok") ~> (pc = "Complete" /\ summary)

\* The doctors file is of zero bytes after the hospitals were loaded.
C19_Witness ==
    /\ pc = "loaded" /\ ent = 2 /\ csv = "EmptyDataError"
    /\ counts[1] = MaxRows

(***************************************************************************)
(* C20.  A hospital load on the database an earlier run loaded, from a     *)
(* file whose every row has a name and a state and is stored already,      *)
(* stores nothing, leaves the rows of hospitals as they were and returns   *)
(* count 0.                                                                *)
(***************************************************************************)
C20_SameCsv ==
    /\ initial > 0
    /\ \A i \in DOMAIN df :
        LET r == bound_params(hospital_record(df[i])) IN
        /\ r.hospital_name # NULL /\ r.state # NULL
        /\ \E j \in 1..initial :
              /\ store["hospitals"][j].hospital_name = r.hospital_name
              /\ store["hospitals"][j].state = r.state

C20_SecondRunAddsNothing ==
    pc = "loaded" /\ ent = 1 /\ csv = "ok" /\ C20_SameCsv =>
        /\ count = 0
        /\ load_result(csv, count) = 0
        /\ store["hospitals"] = LoadedStore["hospitals"]

\* Both rows of the file were tried and none was stored.
C20_Witness ==
    /\ pc = "loaded" /\ ent = 1 /\ csv = "ok" /\ C20_SameCsv
    /\ Len(df) = MaxRows /\ tried = MaxRows /\ failed = MaxRows
    /\ count = 0

====
